---- MODULE Spec2Model ----
(***************************************************************************)
(* Investment lifecycle of Profyt-opt-server: POST /plans/invest (Create), *)
(* PUT /plans/investment/:id (admin Transition) and the completion sweep   *)
(* processCompletedInvestments, as asynchronous handlers over two stores   *)
(* (users, investment transactions).  One action is one run of a handler   *)
(* from one await to the next: Node runs a handler without interruption    *)
(* between awaits, and other handlers may run at every await.              *)
(* A mongoose document is a local copy; save() writes the assigned paths.  *)
(***************************************************************************)
EXTENDS Integers, Sequences, FiniteSets, TLC

\* ---- bounds of the model ----
MaxTime == 1
MaxRecords == 2
MaxAdminCalls == 1
MaxFailures == 1
InitDeposit == 4
MaxInterest == 3

\* ---- processes: the three ways a sweep is invoked, concurrent requests ----
Invokers == {"timer", "initial", "manual"}
AdminReqs == {"a1"}
CreateReqs == {"c1"}
UserIds == {"u1"}

\* a duration string after toLowerCase().trim(), as the parts the regular
\* expression /^(\d+)\s+(unit)$/ tells apart: what stands before the digits
\* (a sign, say), the digits, the number of blanks after them, the word
DurationString(lead, digits, gap, unit) ==
  [lead |-> lead, digits |-> digits, gap |-> gap, unit |-> unit]

\* the Plan collection: p1 active, p2 soft-deleted, p3 absent; p4 ("0 days")
\* and p5 ("1days") are active plans with other duration strings
plans ==
  [p \in {"p1", "p2", "p3", "p4", "p5"} |->
     [exists |-> p # "p3", isActive |-> p # "p2", minAmount |-> 2, roi |-> 50,
      duration |-> IF p = "p4" THEN DurationString("", <<0>>, 1, "days")
                   ELSE IF p = "p5" THEN DurationString("", <<1>>, 0, "days")
                   ELSE DurationString("", <<1>>, 1, "minutes")]]

\* the interest field of the request body: absent, or <<value>>
NoInterest == <<>>

\* request bodies of POST /plans/invest
CreateInputs ==
  { [planId |-> "p1", amount |-> 2, interest |-> NoInterest],
    [planId |-> "p1", amount |-> 2, interest |-> <<3>>],
    [planId |-> "p1", amount |-> 1, interest |-> NoInterest],
    [planId |-> "p2", amount |-> 2, interest |-> NoInterest],
    [planId |-> "p3", amount |-> 2, interest |-> NoInterest] }

\* status values an admin request may carry
TargetStatuses == {"approved", "rejected", "completed", "pending"}

VARIABLES
  now,          \* wall clock (new Date())
  users,        \* User collection: id -> [exists, deposit, interest]
  txs,          \* Transaction collection (type investment), in creation order
  isProcessing, \* the sweep's single-flight flag
  sw,           \* per invoker: the local state of its sweep invocation
  adm,          \* per admin request slot: local state of PUT /investment/:id
  cr,           \* per create request slot: local state of POST /invest
  credits,      \* history, per record: what has been credited on its behalf
  adminCalls,   \* number of admin requests served so far
  fails,        \* number of failed external calls so far
  resp,         \* what the step just taken answered, where a property needs it:
                \* a Create turned away (and why), a sweep skipped, failed or done
  view          \* the body of the last answer of GET /investment/:id/progress

vars == <<now, users, txs, isProcessing, sw, adm, cr, credits, adminCalls, fails, resp, view>>

\* ---- pure helpers ----
isInvestmentDue_exclusive(endDate, currentDate) == currentDate > endDate
isInvestmentDue(endDate, currentDate) == currentDate >= endDate

\* Instants and spans are counted in seconds: every span the parser returns
\* is a whole number of seconds (a month is 30.44 days = 2630016 s, a year
\* 365.25 days = 31557600 s).
DurationUnits ==
  {"minute", "minutes", "hour", "hours", "day", "days", "week", "weeks",
   "month", "months", "year", "years"}

\* duration.match(regex): digits, at least one blank, a unit, nothing else
DurationMatches(d) ==
  d.lead = "" /\ Len(d.digits) >= 1 /\ d.gap >= 1 /\ d.unit \in DurationUnits

\* parseInt(match[1]) of a run of decimal digits
RECURSIVE parseInt(_)
parseInt(digits) ==
  IF digits = <<>> THEN 0
  ELSE 10 * parseInt(SubSeq(digits, 1, Len(digits) - 1)) + digits[Len(digits)]

\* the switch over the unit
UnitSpan(unit) ==
  CASE unit \in {"minute", "minutes"} -> 60
    [] unit \in {"hour", "hours"} -> 60 * 60
    [] unit \in {"day", "days"} -> 24 * 60 * 60
    [] unit \in {"week", "weeks"} -> 7 * 24 * 60 * 60
    [] unit \in {"month", "months"} -> 2630016
    [] unit \in {"year", "years"} -> 31557600

\* the span of a string that matches (one that does not match throws)
parseDurationToMilliseconds(d) == parseInt(d.digits) * UnitSpan(d.unit)

calculateEndDate(startDate, durationString) ==
  startDate + parseDurationToMilliseconds(durationString)

\* Math.round(x) for x = num / den with den > 0: halves go up
RoundedQuotient(num, den) == (2 * num + den) \div (2 * den)

calculateProgressiveInterest_unclamped(totalInterest, startDate, endDate, checkDate) ==
  IF checkDate - startDate <= 0 \/ endDate - startDate <= 0 THEN 0
  ELSE RoundedQuotient(totalInterest * (checkDate - startDate), endDate - startDate)

\* calculateProgressiveInterest, amounts in cents
calculateProgressiveInterest(totalInterest, startDate, endDate, checkDate) ==
  LET totalDuration == endDate - startDate
      sinceStart == checkDate - startDate
      elapsedDuration == IF sinceStart < totalDuration THEN sinceStart ELSE totalDuration
  IN IF elapsedDuration <= 0 THEN 0
     ELSE IF elapsedDuration >= totalDuration THEN totalInterest
     ELSE RoundedQuotient(totalInterest * elapsedDuration, totalDuration)

\* interest || (amount * roi) / 100 : a falsy override falls through
totalInterestOf(interest, amount, roi) ==
  IF interest # NoInterest /\ interest[1] # 0 THEN interest[1] ELSE (amount * roi) \div 100

CanFail == fails < MaxFailures
Outcomes == IF CanFail THEN {TRUE, FALSE} ELSE {TRUE}
FailCount(ok) == IF ok THEN fails ELSE fails + 1

\* ---- initial state ----
SwIdle ==
  [pc |-> "idle", list |-> <<>>, idx |-> 0, cur |-> 0, udep |-> 0, uint |-> 0,
   pending |-> {}, failed |-> FALSE, out |-> <<>>]
AdmIdle == [pc |-> "idle", id |-> 0, status |-> "none", amount |-> 0, udep |-> 0, uint |-> 0]
CrIdle == [pc |-> "idle", req |-> [planId |-> "p1", amount |-> 0, interest |-> NoInterest],
           user |-> "u1", udep |-> 0, startDate |-> 0]
\* per record: completion credits applied (count, principal sum), refunds
\* applied by rejection (sum), and the amount debited at creation
NoCredit == [compN |-> 0, prin |-> 0, rej |-> 0, debit |-> 0]
\* no progress request answered yet
NoView == [id |-> 0, status |-> "none", totalInterest |-> 0, currentInterest |-> 0,
           isCompleted |-> FALSE, at |-> 0]

Init ==
  /\ now = 0
  /\ users = [u \in UserIds |-> [exists |-> TRUE, deposit |-> InitDeposit, interest |-> 0]]
  /\ txs = <<>>
  /\ isProcessing = FALSE
  /\ sw = [p \in Invokers |-> SwIdle]
  /\ adm = [a \in AdminReqs |-> AdmIdle]
  /\ cr = [c \in CreateReqs |-> CrIdle]
  /\ credits = <<>>
  /\ adminCalls = 0
  /\ fails = 0
  /\ resp = "none"
  /\ view = NoView

\* ======================= POST /plans/invest ==============================
\* the validation of router.post("/invest"): which early return is taken
\* (404 plan, 400 minimum, 404 user, 400 balance), "ok" when none is.
\* Plans are never written by these handlers, so the plan lookup and the user
\* lookup are taken at the instant of the user read.
CreateValidation(req, u) ==
  LET plan == plans[req.planId] IN
  IF ~plan.exists \/ ~plan.isActive THEN "planNotFound"
  ELSE IF req.amount < plan.minAmount THEN "belowMinimum"
  ELSE IF ~users[u].exists THEN "userNotFound"
  ELSE IF users[u].deposit < req.amount THEN "insufficient"
  ELSE "ok"

CreateRejections == {"planNotFound", "belowMinimum", "userNotFound", "insufficient"}

\* the stored users after a request that was turned away: nothing is written
UsersAfterRejectedCreate_debitFirst(req, u) ==
  [users EXCEPT ![u].deposit = @ - req.amount]
UsersAfterRejectedCreate(req, u) == users

InFlightCreates == Cardinality({c \in CreateReqs : cr[c].pc # "idle"})

\* request arrives, plan and user are read, the debit is applied to the copy
CreateRequest(c, req, u) ==
  /\ cr[c].pc = "idle"
  /\ LET code == CreateValidation(req, u) IN
     /\ code = "ok" => Len(txs) + InFlightCreates < MaxRecords
     /\ IF code # "ok"
        THEN /\ cr' = cr
             /\ users' = UsersAfterRejectedCreate(req, u)
             /\ resp' = code
        ELSE /\ cr' = [cr EXCEPT ![c] = [CrIdle EXCEPT !.pc = "saveUser", !.req = req, !.user = u,
                                                      !.udep = users[u].deposit - req.amount]]
             /\ users' = users
             /\ resp' = "none"
  /\ UNCHANGED <<now, txs, isProcessing, sw, adm, credits, adminCalls, fails, view>>

\* await user.save(); then startDate = new Date() and the record is built;
\* calculateEndDate throws on a plan duration that does not match, and the
\* catch block answers 500 after the debit was saved
CreateSaveUser(c, ok) ==
  /\ cr[c].pc = "saveUser"
  /\ fails' = FailCount(ok)
  /\ IF ok
     THEN /\ users' = [users EXCEPT ![cr[c].user].deposit = cr[c].udep]
          /\ cr' = IF DurationMatches(plans[cr[c].req.planId].duration)
                   THEN [cr EXCEPT ![c].pc = "saveTx", ![c].startDate = now]
                   ELSE [cr EXCEPT ![c] = CrIdle]
          /\ resp' = "none"
     ELSE /\ users' = users
          /\ cr' = [cr EXCEPT ![c] = CrIdle]
          /\ resp' = "none"
  /\ UNCHANGED <<now, txs, isProcessing, sw, adm, credits, adminCalls, view>>

NewTransaction(c) ==
  LET req == cr[c].req
      plan == plans[req.planId] IN
  [user |-> cr[c].user, status |-> "active", amount |-> req.amount,
   interest |-> totalInterestOf(req.interest, req.amount, plan.roi),
   startDate |-> cr[c].startDate,
   endDate |-> calculateEndDate(cr[c].startDate, plan.duration),
   currentInterest |-> 0]

\* await transaction.save(); await investmentApproved(...); await
\* alertAdmin(...); res.status(201).  The notifications write nothing the
\* handlers read, so their outcome (sent) is drawn with the save's outcome.
CreateSaveTx(c, ok, sent) ==
  /\ cr[c].pc = "saveTx"
  /\ ~ok => sent
  /\ fails' = FailCount(ok /\ sent)
  /\ IF ok
     THEN /\ txs' = Append(txs, NewTransaction(c))
          /\ credits' = Append(credits, [NoCredit EXCEPT !.debit = cr[c].req.amount])
     ELSE UNCHANGED <<txs, credits>>
  /\ resp' = "none"
  /\ cr' = [cr EXCEPT ![c] = CrIdle]
  /\ UNCHANGED <<now, users, isProcessing, sw, adm, adminCalls, view>>

\* ======================= PUT /plans/investment/:id =======================
\* await Transaction.findById(id)
AdminFindTx(a, id, status) ==
  /\ adm[a].pc = "idle"
  /\ adminCalls < MaxAdminCalls
  /\ IF id > Len(txs)
     THEN UNCHANGED <<adm, adminCalls>>
     ELSE /\ adm' = [adm EXCEPT ![a] = [AdmIdle EXCEPT !.pc = "findUser", !.id = id, !.status = status,
                                                      !.amount = txs[id].amount]]
          /\ adminCalls' = adminCalls + 1
  /\ resp' = "none"
  /\ UNCHANGED <<now, users, txs, isProcessing, sw, cr, credits, fails, view>>

\* await User.findById(transaction.user.id); then the status branch up to its
\* first await that writes; the approval notification (sent) writes nothing
AdminFindUser(a, sent) ==
  /\ adm[a].pc = "findUser"
  /\ ~sent => (adm[a].status = "approved" /\ users[txs[adm[a].id].user].exists)
  /\ fails' = FailCount(sent)
  /\ LET t == txs[adm[a].id]
         u == users[t.user]
         st == adm[a].status IN
     IF ~u.exists
     THEN adm' = [adm EXCEPT ![a] = AdmIdle]
     ELSE IF st = "rejected"
     THEN adm' = [adm EXCEPT ![a].pc = "saveUser", ![a].udep = u.deposit + adm[a].amount]
     ELSE IF st = "completed"
     THEN adm' = [adm EXCEPT ![a].pc = "saveUser", ![a].udep = u.deposit + adm[a].amount,
                             ![a].uint = u.interest + t.interest]
     ELSE IF st = "approved" /\ ~sent
     THEN adm' = [adm EXCEPT ![a] = AdmIdle]
     ELSE adm' = [adm EXCEPT ![a].pc = "saveTx"]
  /\ resp' = "none"
  /\ UNCHANGED <<now, users, txs, isProcessing, sw, cr, credits, adminCalls, view>>

\* await user.save() of the rejected or the completed branch, then await
\* investmentRejected / investmentCompleted (sent)
AdminSaveUser(a, ok, sent) ==
  /\ adm[a].pc = "saveUser"
  /\ ~ok => sent
  /\ fails' = FailCount(ok /\ sent)
  /\ LET id == adm[a].id
         u == txs[id].user IN
     IF ok
     THEN /\ users' = IF adm[a].status = "rejected"
                      THEN [users EXCEPT ![u].deposit = adm[a].udep]
                      ELSE [users EXCEPT ![u].deposit = adm[a].udep, ![u].interest = adm[a].uint]
          /\ credits' = IF adm[a].status = "rejected"
                        THEN [credits EXCEPT ![id].rej = @ + adm[a].amount]
                        ELSE [credits EXCEPT ![id].compN = @ + 1, ![id].prin = @ + adm[a].amount]
          /\ adm' = IF sent THEN [adm EXCEPT ![a].pc = "saveTx"] ELSE [adm EXCEPT ![a] = AdmIdle]
     ELSE /\ UNCHANGED <<users, credits>>
          /\ adm' = [adm EXCEPT ![a] = AdmIdle]
  /\ resp' = "none"
  /\ UNCHANGED <<now, txs, isProcessing, sw, cr, adminCalls, view>>

\* the fields transaction.save() writes: status, and amount = 0 when rejected;
\* the completed branch does not touch planData.currentInterest
AdminSavedTransaction_zeroAmount(t, status) == [t EXCEPT !.status = status, !.amount = 0]
AdminSavedTransaction(t, status) ==
  IF status = "rejected" THEN [t EXCEPT !.status = status, !.amount = 0]
  ELSE [t EXCEPT !.status = status]

\* await transaction.save(); res.json
AdminSaveTx(a, ok) ==
  /\ adm[a].pc = "saveTx"
  /\ fails' = FailCount(ok)
  /\ txs' = IF ok THEN [txs EXCEPT ![adm[a].id] = AdminSavedTransaction(@, adm[a].status)] ELSE txs
  /\ adm' = [adm EXCEPT ![a] = AdmIdle]
  /\ resp' = "none"
  /\ UNCHANGED <<now, users, isProcessing, sw, cr, credits, adminCalls, view>>

\* ======================= processCompletedInvestments =====================
\* if (isProcessing) return;
GuardBlocks_unguarded == FALSE
GuardBlocks == isProcessing

\* finally { isProcessing = false } : the flag after an invocation that
\* ended by the log line how ("sweepDone", or "sweepFailed" from the outer catch)
FlagAfterSweep_noFinally(how) == how = "sweepFailed"
FlagAfterSweep(how) == FALSE

\* the records Transaction.find({type, status: "active", endDate present})
\* returns, as local documents; startDate, endDate, interest and user of a
\* record are never written after creation and are read through its id
ActiveInvestments ==
  LET ids == {i \in 1..Len(txs) : txs[i].status = "active"}
      RECURSIVE Build(_)
      Build(i) == IF i > Len(txs) THEN <<>>
                  ELSE IF i \in ids THEN <<[id |-> i, amount |-> txs[i].amount]>> \o Build(i + 1)
                  ELSE Build(i + 1)
  IN Build(1)

\* the index of the first record at or after i that the loop finds due
RECURSIVE NextDue(_, _, _)
NextDue(list, i, cur) ==
  IF i > Len(list) THEN i
  ELSE IF isInvestmentDue(txs[list[i].id].endDate, cur) THEN i
  ELSE NextDue(list, i + 1, cur)

\* where the for loop goes on after the catch block of one record
AfterRecordFailure_abort(s) == Len(s.list) + 1
AfterRecordFailure(s) == s.idx + 1

\* the loop runs from record i to its next await (the user lookup of a due
\* record) or to its end; s is the invocation's local state
LoopFrom(s, i) ==
  LET j == NextDue(s.list, i, s.cur)
      out2 == [k \in 1..Len(s.list) |-> IF k >= i /\ k < j THEN "notDue" ELSE s.out[k]]
  IN IF j > Len(s.list)
     THEN SwIdle
     ELSE [s EXCEPT !.pc = "findUser", !.idx = j, !.udep = 0, !.uint = 0, !.pending = {},
                    !.failed = FALSE, !.out = out2]

\* the flag and the log line once the invocation is in local state s
FlagWith(s) == IF s.pc = "idle" THEN FlagAfterSweep("sweepDone") ELSE isProcessing
LogWith(s) == IF s.pc = "idle" THEN "sweepDone" ELSE "none"

\* an invocation by the cron timer, the startup timeout (once) or the manual
\* trigger: the guard, then isProcessing = true up to the await of the query
SweepEnter(p) ==
  /\ sw[p].pc = "idle"
  /\ IF GuardBlocks
     THEN /\ UNCHANGED <<sw, isProcessing>>
          /\ resp' = "skipped"
     ELSE /\ sw' = [sw EXCEPT ![p].pc = "query"]
          /\ isProcessing' = TRUE
          /\ resp' = "none"
  /\ UNCHANGED <<now, users, txs, adm, cr, credits, adminCalls, fails, view>>

\* await Transaction.find(...); currentDate = new Date(); the loop starts
SweepQuery(p, ok) ==
  /\ sw[p].pc = "query"
  /\ fails' = FailCount(ok)
  /\ LET s == IF ok
              THEN LoopFrom([sw[p] EXCEPT !.list = ActiveInvestments, !.cur = now,
                                          !.out = [k \in 1..Len(ActiveInvestments) |-> "pending"]], 1)
              ELSE SwIdle
     IN /\ sw' = [sw EXCEPT ![p] = s]
        /\ isProcessing' = IF ok THEN FlagWith(s) ELSE FlagAfterSweep("sweepFailed")
        /\ resp' = IF ok THEN LogWith(s) ELSE "sweepFailed"
  /\ UNCHANGED <<now, users, txs, adm, cr, credits, adminCalls, view>>

\* await User.findById(investment.user.id); balances and status are set on
\* the local documents; both saves are issued
SweepFindUser(p, ok) ==
  /\ sw[p].pc = "findUser"
  /\ fails' = FailCount(ok)
  /\ LET s == sw[p]
         inv == s.list[s.idx]
         t == txs[inv.id]
         u == users[t.user]
         s2 == IF ~ok
               THEN LoopFrom([s EXCEPT !.out[s.idx] = "findFail"], AfterRecordFailure(s))
               ELSE IF ~u.exists
               THEN LoopFrom([s EXCEPT !.out[s.idx] = "noUser"], s.idx + 1)
               ELSE [s EXCEPT !.pc = "save", !.udep = u.deposit + inv.amount,
                              !.uint = u.interest + t.interest, !.pending = {"user", "tx"}]
     IN /\ sw' = [sw EXCEPT ![p] = s2]
        /\ isProcessing' = FlagWith(s2)
        /\ resp' = LogWith(s2)
  /\ UNCHANGED <<now, users, txs, adm, cr, credits, adminCalls, view>>

\* Promise.all settles: the catch block if either save failed, else await
\* investmentCompleted(...) (sent), completedCount++ and the next record.
\* Both saves are issued before either settles, so a save that succeeds is
\* applied also when the other one fails; the loop is taken to go on once
\* both have settled.
AfterSave(s, which, ok, sent) ==
  LET s2 == [s EXCEPT !.pending = @ \ {which}, !.failed = @ \/ ~ok] IN
  IF s2.pending # {} THEN s2
  ELSE IF s2.failed THEN LoopFrom([s2 EXCEPT !.out[s.idx] = "saveFail"], AfterRecordFailure(s))
  ELSE IF ~sent THEN LoopFrom([s2 EXCEPT !.out[s.idx] = "notifyFail"], AfterRecordFailure(s))
  ELSE LoopFrom([s2 EXCEPT !.out[s.idx] = "completed"], s.idx + 1)

\* a notification is attempted only after the last save when none failed
MaySend(s, which, ok, sent) == ~sent => (ok /\ ~s.failed /\ s.pending = {which})

\* user.save() of Promise.all
SweepSaveUser(p, ok, sent) ==
  /\ sw[p].pc = "save"
  /\ "user" \in sw[p].pending
  /\ MaySend(sw[p], "user", ok, sent)
  /\ fails' = FailCount(ok /\ sent)
  /\ LET s == sw[p]
         inv == s.list[s.idx]
         u == txs[inv.id].user
         s2 == AfterSave(s, "user", ok, sent)
     IN /\ users' = IF ok THEN [users EXCEPT ![u].deposit = s.udep, ![u].interest = s.uint] ELSE users
        /\ credits' = IF ok
                      THEN [credits EXCEPT ![inv.id].compN = @ + 1, ![inv.id].prin = @ + inv.amount]
                      ELSE credits
        /\ sw' = [sw EXCEPT ![p] = s2]
        /\ isProcessing' = FlagWith(s2)
        /\ resp' = LogWith(s2)
  /\ UNCHANGED <<now, txs, adm, cr, adminCalls, view>>

\* investment.status = "completed"; planData.currentInterest = planData.interest
SweepSavedTransaction(t) == [t EXCEPT !.status = "completed", !.currentInterest = t.interest]

\* investment.save() of Promise.all
SweepSaveTx(p, ok, sent) ==
  /\ sw[p].pc = "save"
  /\ "tx" \in sw[p].pending
  /\ MaySend(sw[p], "tx", ok, sent)
  /\ fails' = FailCount(ok /\ sent)
  /\ LET s == sw[p]
         inv == s.list[s.idx]
         s2 == AfterSave(s, "tx", ok, sent)
     IN /\ txs' = IF ok THEN [txs EXCEPT ![inv.id] = SweepSavedTransaction(@)] ELSE txs
        /\ sw' = [sw EXCEPT ![p] = s2]
        /\ isProcessing' = FlagWith(s2)
        /\ resp' = LogWith(s2)
  /\ UNCHANGED <<now, users, adm, cr, credits, adminCalls, view>>

\* ======================= GET /plans/investment/:id/progress ==============
\* the body of res.json for the record t read by Transaction.findById(id),
\* with currentDate = new Date()
ProgressBody(id, t, currentDate) ==
  LET isCompleted == isInvestmentDue(t.endDate, currentDate) IN
  [id |-> id,
   status |-> IF isCompleted THEN "ready_to_complete" ELSE t.status,
   totalInterest |-> t.interest,
   currentInterest |-> calculateProgressiveInterest(t.interest, t.startDate, t.endDate, currentDate),
   isCompleted |-> isCompleted,
   at |-> currentDate]

\* await Transaction.findById(id); 404 when there is none, else the body
Progress(id) ==
  /\ view' = IF id > Len(txs) THEN view ELSE ProgressBody(id, txs[id], now)
  /\ resp' = "none"
  /\ UNCHANGED <<now, users, txs, isProcessing, sw, adm, cr, credits, adminCalls, fails>>

\* ======================= environment =====================================
\* the wall clock read by new Date(), advancing by one period of the cron
\* schedule
Tick ==
  /\ now < 60 * MaxTime
  /\ now' = now + 60
  /\ resp' = "none"
  /\ UNCHANGED <<users, txs, isProcessing, sw, adm, cr, credits, adminCalls, fails, view>>

\* a user document disappears from the User collection (User.findById then
\* yields null, the case the handlers test with if (!user))
UserRemoved(u) ==
  /\ users[u].exists
  /\ Len(txs) >= 1
  /\ users' = [users EXCEPT ![u].exists = FALSE]
  /\ resp' = "none"
  /\ UNCHANGED <<now, txs, isProcessing, sw, adm, cr, credits, adminCalls, fails, view>>

\* ======================= specification ===================================
CreateNext ==
  \/ \E c \in CreateReqs, req \in CreateInputs, u \in UserIds : CreateRequest(c, req, u)
  \/ \E c \in CreateReqs, ok \in Outcomes : CreateSaveUser(c, ok)
  \/ \E c \in CreateReqs, ok \in Outcomes, sent \in Outcomes : CreateSaveTx(c, ok, sent)

AdminNext ==
  \/ \E a \in AdminReqs, id \in 1..MaxRecords, st \in TargetStatuses : AdminFindTx(a, id, st)
  \/ \E a \in AdminReqs, sent \in Outcomes : AdminFindUser(a, sent)
  \/ \E a \in AdminReqs, ok \in Outcomes, sent \in Outcomes : AdminSaveUser(a, ok, sent)
  \/ \E a \in AdminReqs, ok \in Outcomes : AdminSaveTx(a, ok)

SweepNext ==
  \/ \E p \in Invokers : SweepEnter(p)
  \/ \E p \in Invokers, ok \in Outcomes : SweepQuery(p, ok)
  \/ \E p \in Invokers, ok \in Outcomes : SweepFindUser(p, ok)
  \/ \E p \in Invokers, ok \in Outcomes, sent \in Outcomes : SweepSaveUser(p, ok, sent)
  \/ \E p \in Invokers, ok \in Outcomes, sent \in Outcomes : SweepSaveTx(p, ok, sent)

Next ==
  \/ CreateNext
  \/ AdminNext
  \/ SweepNext
  \/ Tick
  \/ \E u \in UserIds : UserRemoved(u)

Spec == Init /\ [][Next]_vars

\* the sweep and the requests alone, with no admin request and no user removed,
\* under the scheduling the process guarantees: the cron timer keeps firing, an
\* awaited call returns, the clock advances; failed calls are finitely many
\* (fails <= MaxFailures), so every persistence call eventually succeeds
LiveNext ==
  \/ CreateNext
  \/ SweepNext
  \/ Tick

SweepStep(p) ==
  \/ \E ok \in Outcomes : SweepQuery(p, ok)
  \/ \E ok \in Outcomes : SweepFindUser(p, ok)
  \/ \E ok \in Outcomes, sent \in Outcomes : SweepSaveUser(p, ok, sent)
  \/ \E ok \in Outcomes, sent \in Outcomes : SweepSaveTx(p, ok, sent)

LiveSpec ==
  /\ Init
  /\ [][LiveNext]_vars
  /\ WF_vars(Tick)
  /\ WF_vars(SweepEnter("timer"))
  /\ \A p \in Invokers : WF_vars(SweepStep(p))

\* request bodies that also name the plans p4 and p5, or carry an interest
\* override that is 0 or negative
CreateInputsWide ==
  CreateInputs \cup
  { [planId |-> "p4", amount |-> 2, interest |-> NoInterest],
    [planId |-> "p5", amount |-> 2, interest |-> NoInterest],
    [planId |-> "p1", amount |-> 2, interest |-> <<0>>],
    [planId |-> "p1", amount |-> 2, interest |-> <<-1>>] }

WideCreateNext ==
  \/ \E c \in CreateReqs, req \in CreateInputsWide, u \in UserIds : CreateRequest(c, req, u)
  \/ \E c \in CreateReqs, ok \in Outcomes : CreateSaveUser(c, ok)
  \/ \E c \in CreateReqs, ok \in Outcomes, sent \in Outcomes : CreateSaveTx(c, ok, sent)

\* requests over all plans and overrides, with the sweep and the clock
WideNext ==
  \/ WideCreateNext
  \/ SweepNext
  \/ Tick

WideSpec == Init /\ [][WideNext]_vars

\* requests, the sweep, the clock and the progress requests
ProgressNext ==
  \/ CreateNext
  \/ SweepNext
  \/ Tick
  \/ \E id \in 1..MaxRecords : Progress(id)

ProgressSpec == Init /\ [][ProgressNext]_vars

\* the arguments of calculateProgressiveInterest drawn from bounded sets:
\* one stored record with any total interest, start date and term, read by
\* progress requests at any instant
CalcInstants == {0, 20, 40}
CalcTerms == {0, 60, 120}

CalcInit ==
  /\ now \in CalcInstants
  /\ users = [u \in UserIds |-> [exists |-> TRUE, deposit |-> InitDeposit, interest |-> 0]]
  /\ \E T \in 0..MaxInterest, s \in CalcInstants, d \in CalcTerms :
       txs = << [user |-> "u1", status |-> "active", amount |-> 0, interest |-> T,
                 startDate |-> s, endDate |-> s + d, currentInterest |-> 0] >>
  /\ credits = <<NoCredit>>
  /\ isProcessing = FALSE
  /\ sw = [p \in Invokers |-> SwIdle]
  /\ adm = [a \in AdminReqs |-> AdmIdle]
  /\ cr = [c \in CreateReqs |-> CrIdle]
  /\ adminCalls = 0
  /\ fails = 0
  /\ resp = "none"
  /\ view = NoView

CalcNext ==
  \/ \E id \in 1..MaxRecords : Progress(id)
  \/ Tick

CalcSpec == CalcInit /\ [][CalcNext]_vars

\* ======================= properties ======================================
Records == 1..Len(txs)
Running == {p \in Invokers : sw[p].pc # "idle"}
Owner(r) == users[txs[r].user]
Due(r) == isInvestmentDue(txs[r].endDate, now)

\* C1: for every record, principal and interest are credited by completion
\* at most once, whatever admin completions and sweeps are applied to it.
C1_CompletionCreditedOnce == \A r \in Records : credits[r].compN <= 1

\* C2: the refunds applied by rejection to a record add up to at most the
\* amount debited for it, and once a rejection has refunded and its request
\* has returned, the stored amount is 0.
C2_RejectionRefundsOnce ==
  \A r \in Records :
    /\ credits[r].rej <= credits[r].debit
    /\ (credits[r].rej > 0 /\ \A a \in AdminReqs : adm[a].pc = "idle") => txs[r].amount = 0

\* C3: at most one invocation is inside the sweep body at any time, and an
\* invocation that is skipped queries nothing and changes no record, no
\* balance, no local state of the running sweep and not the guard flag.
C3_SingleFlight ==
  /\ [](Cardinality(Running) <= 1)
  /\ [][resp' = "skipped" =>
          UNCHANGED <<now, users, txs, isProcessing, sw, adm, cr, credits, adminCalls, fails, view>>]_vars

C3_Witness == resp = "skipped" /\ \E p \in Invokers : sw[p].pc = "save"

\* C4: when no invocation is inside the sweep body the guard flag is false,
\* however the last one ended; so an invocation is skipped only while
\* another one is still inside the body.
C4_GuardReleased ==
  /\ Running = {} => ~isProcessing
  /\ resp = "skipped" => Running # {}
  /\ resp \in {"sweepDone", "sweepFailed"} => ~isProcessing

C4_Witness == resp = "sweepFailed" /\ ~isProcessing /\ Running = {}

\* C5: under LiveSpec every record that is active, due and has its owner is
\* eventually stored completed with principal and interest credited.
C5_DueRecordEventuallyCompleted ==
  \A r \in 1..MaxRecords :
    (r \in Records /\ txs[r].status = "active" /\ Due(r) /\ Owner(r).exists)
      ~> (r \in Records /\ txs[r].status = "completed" /\ credits[r].compN >= 1)

\* C6: when a save or the notification fails for the due record a sweep is
\* processing (no admin request being involved), the stored record is still
\* active as the sweep leaves it, so that the next sweep finds it again.
C6_FailedRecordStaysActive ==
  [][\A p \in Invokers :
       (/\ sw[p].pc = "save"
        /\ sw'[p].pc # "save"
        /\ (sw[p].failed \/ fails' > fails)
        /\ adminCalls = 0)
       => txs'[sw[p].list[sw[p].idx].id].status = "active"]_vars

\* the outcomes the loop records for a record it found due
DueOutcomes == {"completed", "noUser", "findFail", "saveFail", "notifyFail"}

\* every record before the one being processed has been examined: it was
\* found not due, or it was due and was completed unless its own lookup,
\* save or notification failed or its owner is missing
ExaminedBefore(s) ==
  \A k \in 1..Len(s.list) :
    k < s.idx =>
      LET r == s.list[k].id IN
      IF isInvestmentDue(txs[r].endDate, s.cur)
      THEN /\ s.out[k] \in DueOutcomes
           /\ s.out[k] = "completed" => credits[r].compN >= 1
           /\ s.out[k] = "noUser" => ~Owner(r).exists
      ELSE s.out[k] = "notDue"

\* C7: a sweep goes through every record of its query: while it runs, all
\* records before the current one have been examined, each due one being
\* completed unless its own processing failed; and it ends only when no
\* record after the current one is due, also after a failure on a record.
C7_FailureDoesNotAbortSweep ==
  /\ [](\A p \in Invokers : sw[p].pc \in {"findUser", "save"} => ExaminedBefore(sw[p]))
  /\ [][\A p \in Invokers :
          (sw[p].pc \in {"findUser", "save"} /\ sw'[p].pc = "idle")
          => \A k \in 1..Len(sw[p].list) :
               k > sw[p].idx => ~isInvestmentDue(txs[sw[p].list[k].id].endDate, sw[p].cur)]_vars

\* the first record of the query failed and the sweep has gone on to save
\* the second one as completed
C7_Witness ==
  \E p \in Invokers :
    /\ sw[p].pc = "save"
    /\ sw[p].idx = 2
    /\ sw[p].out[1] \in {"saveFail", "notifyFail", "findFail", "noUser"}
    /\ "tx" \notin sw[p].pending
    /\ txs[sw[p].list[2].id].status = "completed"

\* C8: a Create request that is turned away by the validation writes
\* nothing: balances, records and the request slot are as before.
C8_RejectedCreateWritesNothing ==
  [][resp' \in CreateRejections =>
       UNCHANGED <<now, users, txs, isProcessing, sw, adm, cr, credits, adminCalls, fails, view>>]_vars

\* a request was just turned away for insufficient balance, after an
\* earlier one was accepted
C8_Witness ==
  /\ resp = "insufficient"
  /\ Len(txs) >= 1
  /\ \A u \in UserIds : users[u].exists /\ users[u].deposit < 2

\* C9: the save of a Create lowers the stored deposit by exactly the
\* request's amount, the record it creates is active with currentInterest 0,
\* no save of a Transition or of a sweep lowers the stored deposit, and the
\* stored deposit is never negative.
C9_CreateDebitsExactlyOnce ==
  /\ [](\A u \in UserIds : users[u].deposit >= 0)
  /\ [][/\ \A c \in CreateReqs :
            (cr[c].pc = "saveUser" /\ cr'[c].pc = "saveTx")
            => users'[cr[c].user].deposit = users[cr[c].user].deposit - cr[c].req.amount
        /\ Len(txs') > Len(txs) =>
             (txs'[Len(txs')].status = "active" /\ txs'[Len(txs')].currentInterest = 0)
        /\ (\A c \in CreateReqs : cr'[c] = cr[c]) =>
             \A u \in UserIds : users'[u].deposit >= users[u].deposit]_vars

\* C10: a record stored as completed has its currentInterest equal to its
\* total interest and has had principal and interest credited.
C10_CompletedRecordIsSettled ==
  \A r \in Records :
    txs[r].status = "completed" =>
      (txs[r].currentInterest = txs[r].interest /\ credits[r].compN >= 1)

\* C11: every record created by Create has its end date after its start
\* date, whatever duration string of the plan the parser accepted.
C11_EndAfterStart == \A r \in Records : txs[r].endDate > txs[r].startDate

\* C12: the stored currentInterest of every record is at most its stored
\* total interest, and no step lowers it, for every request, one with an
\* interest override included.
C12_CurrentInterestBounded ==
  /\ [](\A r \in Records : txs[r].currentInterest <= txs[r].interest)
  /\ [][\A r \in Records : txs'[r].currentInterest >= txs[r].currentInterest]_vars

\* C13: a Transition to approved, or to any status other than rejected and
\* completed, changes nothing but the stored status of its record: the
\* balances of the owner, what has been credited, the amount and the plan
\* snapshot of the record and every other record stay as they are; and its
\* save, when it succeeds, stores the requested status.
C13_StatusOnlyTransition ==
  [][\A a \in AdminReqs :
       (adm[a].pc # "idle" /\ adm[a].status \notin {"rejected", "completed"} /\ adm'[a] # adm[a])
       => /\ users' = users
          /\ credits' = credits
          /\ Len(txs') = Len(txs)
          /\ \A r \in Records : r # adm[a].id => txs'[r] = txs[r]
          /\ txs'[adm[a].id] = [txs[adm[a].id] EXCEPT !.status = txs'[adm[a].id].status]
          /\ (adm[a].pc = "saveTx" /\ fails' = fails) => txs'[adm[a].id].status = adm[a].status]_vars

\* a record stored approved or pending by a Transition, with its amount kept
C13_Witness ==
  \E r \in Records :
    /\ txs[r].status \in {"approved", "pending"}
    /\ txs[r].amount = credits[r].debit
    /\ txs[r].amount > 0

\* the statuses a record has before it is completed or rejected
PreCompletion == {"pending", "active", "approved"}

\* C14: a progress request answers ready_to_complete exactly when the record
\* is due and its stored status is still a pre-completion one; in every
\* other case, a due record stored completed or rejected included, it
\* answers the stored status.
C14_ProgressDisplayedStatus ==
  [][view' # view =>
       LET t == txs[view'.id] IN
       view'.status = IF now >= t.endDate /\ t.status \in PreCompletion
                      THEN "ready_to_complete" ELSE t.status]_vars

\* C15: the total interest of a created record is the request's override
\* whenever the request carries one, and amount * roi / 100 only when it
\* carries none.
C15_OverrideIsRecorded ==
  [][\A c \in CreateReqs :
       (cr[c].pc = "saveTx" /\ Len(txs') > Len(txs)) =>
         LET req == cr[c].req IN
         txs'[Len(txs')].interest =
           IF req.interest # NoInterest THEN req.interest[1]
           ELSE (req.amount * plans[req.planId].roi) \div 100]_vars

\* C16: for every total interest T >= 0 and all instants s, e, now, the
\* progressive interest lies in [0, T], is 0 whenever now <= s, is T whenever
\* now >= e, and does not decrease as now advances.
C16_ProgressiveInterestShape ==
  /\ [](view.id # 0 =>
         LET t == txs[view.id] IN
         /\ 0 <= view.currentInterest
         /\ view.currentInterest <= t.interest
         /\ view.at <= t.startDate => view.currentInterest = 0
         /\ view.at >= t.endDate => view.currentInterest = t.interest)
  /\ [][(view.id # 0 /\ view'.id = view.id) => view'.currentInterest >= view.currentInterest]_vars

\* C16 as amended: for every total interest T >= 0 and all instants s, e, now
\* with s < e, the progressive interest lies in [0, T], is 0 whenever
\* now <= s, is T whenever now >= e, and does not decrease as now advances.
C16_ProgressiveInterestOverProperTerm ==
  /\ []((view.id # 0 /\ txs[1].startDate < txs[1].endDate) =>
         LET t == txs[view.id] IN
         /\ 0 <= view.currentInterest
         /\ view.currentInterest <= t.interest
         /\ view.at <= t.startDate => view.currentInterest = 0
         /\ view.at >= t.endDate => view.currentInterest = t.interest)
  /\ [][(view.id # 0 /\ view'.id = view.id /\ txs[1].startDate < txs[1].endDate)
        => view'.currentInterest >= view.currentInterest]_vars

\* a progress answer inside the term, with part of the interest accrued
C16_Witness ==
  /\ view.id # 0
  /\ txs[view.id].startDate < view.at
  /\ view.at < txs[view.id].endDate
  /\ 0 < view.currentInterest
  /\ view.currentInterest < txs[view.id].interest

\* the record a running sweep is processing
Current(s) == s.list[s.idx].id

\* C17: a sweep takes up a record of its query for completion if and only
\* if the end date of the record is at or before the instant the sweep
\* captured: the record being processed is due, a record passed before it was
\* passed over exactly when its end date is later than that instant and, when
\* it was due and no call has failed, is stored completed and credited; and no
\* step of the sweep changes a record that is not due, nor what has been
\* credited for it, nor any balance while the record in hand is not due.
C17_DueBoundaryInclusive ==
  /\ [](\A p \in Running :
         sw[p].pc \in {"findUser", "save"} =>
           /\ txs[Current(sw[p])].endDate <= sw[p].cur
           /\ \A k \in 1..Len(sw[p].list) :
                k < sw[p].idx =>
                  LET r == sw[p].list[k].id IN
                  /\ sw[p].out[k] = "notDue" <=> txs[r].endDate > sw[p].cur
                  /\ (txs[r].endDate <= sw[p].cur /\ fails = 0) =>
                       (txs[r].status = "completed" /\ credits[r].compN = 1))
  /\ [][\A p \in Invokers :
          sw'[p] # sw[p] =>
            /\ \A r \in Records :
                 txs[r].endDate > sw[p].cur => (txs'[r] = txs[r] /\ credits'[r] = credits[r])
            /\ users' # users => txs[Current(sw[p])].endDate <= sw[p].cur]_vars

\* a sweep has stored as completed a record whose end date is the very
\* instant it captured, having passed over or left alone a record that ends
\* later
C17_Witness ==
  \E p \in Running :
    /\ sw[p].pc = "save"
    /\ "tx" \notin sw[p].pending
    /\ txs[Current(sw[p])].endDate = sw[p].cur
    /\ txs[Current(sw[p])].status = "completed"
    /\ \E r \in Records : txs[r].endDate > sw[p].cur /\ txs[r].status = "active"

\* C18: a sweep writes the status of a record, and credits its owner, only
\* while the stored status of the record is active (or is the completed it
\* has just stored itself): a record an admin Transition rejected or
\* completed after the query is left alone.
C18_SweepCompletesActiveOnly ==
  [][\A p \in Invokers :
       (sw[p].pc = "save" /\ sw'[p] # sw[p]) =>
         LET r == Current(sw[p]) IN
         /\ txs'[r] # txs[r] => txs[r].status = "active"
         /\ credits'[r] # credits[r] =>
              \/ txs[r].status = "active"
              \/ (txs[r].status = "completed" /\ "tx" \notin sw[p].pending)]_vars

\* C19: what has been credited to the deposit on behalf of a record, by
\* completions and by rejections together, never exceeds what was debited
\* for it at creation.
C19_CreditedAtMostDebited ==
  \A r \in Records : credits[r].prin + credits[r].rej <= credits[r].debit

\* C20: no balance update is lost: every save of a user applies exactly its
\* own change to the stored balances, the debit of a Create, the refund or
\* the principal of a Transition or a sweep on the deposit and the interest
\* of a completion on the interest balance, so that the stored balances are
\* the initial ones plus all the changes applied.
C20_NoLostUpdate ==
  [][/\ \A c \in CreateReqs :
          (cr[c].pc = "saveUser" /\ cr'[c].pc = "saveTx") =>
            users'[cr[c].user].deposit - users[cr[c].user].deposit = 0 - cr[c].req.amount
      /\ \A r \in Records :
          credits'[r] # credits[r] =>
            LET u == txs[r].user IN
            /\ users'[u].deposit - users[u].deposit =
                 (credits'[r].prin - credits[r].prin) + (credits'[r].rej - credits[r].rej)
            /\ users'[u].interest - users[u].interest =
                 (credits'[r].compN - credits[r].compN) * txs[r].interest]_vars
====
